---------------------------- MODULE Spec2Model ----------------------------
(***************************************************************************)
(* IPython/nbconvert/filters/markdown.py: extended_markdown2latex and the  *)
(* MarkdownSplitParser it drives.                                          *)
(*                                                                         *)
(* A Python str is a sequence of one-character strings.  A Python list     *)
(* that mixes ints and strs (a span: [kind, start, end, text, ...]) is a   *)
(* sequence of tagged values, PyInt(n) or PyStr(s), so that `==' between   *)
(* two fields is Python's: an int never equals a str.                      *)
(*                                                                         *)
(* HTMLParser (standard library) is the event source: it delivers the      *)
(* start-tag, end-tag, start-end-tag and data events of the source in      *)
(* order, and getpos() is the (line, column) of the event's first          *)
(* character.  The events of one feed call are drawn one at a time; `data' *)
(* holds the source text up to and including the event being handled,      *)
(* which is all of self.data that get_offset reads, and the whole source   *)
(* once the last event is in, which is when feed reads len(self.data).     *)
(***************************************************************************)
EXTENDS Integers, Sequences, FiniteSets

\* Number of extended_markdown2latex calls made in one process.
MaxCalls == 4
\* Number of tokenizer events delivered over all calls.
MaxEvents == 5
\* The same two numbers for the runs that look at a scan in progress.
MaxScanCalls == 3
MaxScanEvents == 4

VARIABLES
    opentags,   \* MarkdownSplitParser.opentags  (class attribute, one list object)
    splitlist,  \* MarkdownSplitParser.splitlist (class attribute, one list object)
    setag,      \* parser.setag of the current instance
    datag,      \* parser.datag of the current instance
    data,       \* parser.data, as far as scanned
    fed,        \* the events delivered to the current instance, in order
    outtext,    \* extended_markdown2latex's outtext
    pc,         \* where the current call is
    calls,      \* calls begun
    raised,     \* calls that ended with an exception
    events      \* events delivered over all calls

vars == <<opentags, splitlist, setag, datag, data, fed, outtext, pc, calls,
          raised, events>>

-----------------------------------------------------------------------------
(* Python values *)

PyInt(n) == [ty |-> "int", n |-> n, s |-> <<>>]
PyStr(s) == [ty |-> "str", n |-> 0, s |-> s]

\* The str literals 'markdown' and 'html' (kept whole: one symbol each).
markdown == PyStr(<<"markdown">>)
html == PyStr(<<"html">>)
img == <<"i", "m", "g">>

Min(a, b) == IF a < b THEN a ELSE b

\* s[a:b] for 0 <= a, 0 <= b: clipped to the string, empty when a >= b.
PySlice(s, a, b) ==
    LET lo == Min(a, Len(s))
        hi == Min(b, Len(s))
    IN IF lo >= hi THEN <<>> ELSE SubSeq(s, lo + 1, hi)

\* list.pop(i), 0 <= i < len(list): the list without its element i.
PyPop(l, i) == SubSeq(l, 1, i) \o SubSeq(l, i + 2, Len(l))

\* l[-1].append(x) on a list of lists, l not empty.
AppendToLast(l, x) == [l EXCEPT ![Len(l)] = Append(@, x)]

-----------------------------------------------------------------------------
(* The tokenizer's events *)

StartText(tag) == <<"<">> \o tag \o <<">">>
EndText(tag, pad) == <<"<", "/">> \o tag \o pad \o <<">">>
StartEndText(tag) == <<"<">> \o tag \o <<"/", ">">>

StartEvent(tag) == [ev |-> "starttag", tag |-> tag, text |-> StartText(tag)]
EndEvent(tag, pad) == [ev |-> "endtag", tag |-> tag, text |-> EndText(tag, pad)]
StartEndEvent(tag) == [ev |-> "startendtag", tag |-> tag, text |-> StartEndText(tag)]
DataEvent(text) == [ev |-> "data", tag |-> <<>>, text |-> text]

\* <d>, <img>
StartEvents == {StartEvent(<<"d">>), StartEvent(img)}
\* </d>, </d >, </img>
EndEvents == {EndEvent(<<"d">>, <<>>), EndEvent(<<"d">>, <<" ">>), EndEvent(img, <<>>)}
\* <br/>
StartEndEvents == {StartEndEvent(<<"b", "r">>)}
\* a, and a line break
DataEvents == {DataEvent(<<"a">>), DataEvent(<<"\n">>)}

RECURSIVE Count(_, _)
Count(s, c) ==
    IF s = <<>> THEN 0
    ELSE (IF s[1] = c THEN 1 ELSE 0) + Count(Tail(s), c)

RECURSIVE LastLineLen(_)
LastLineLen(s) ==
    IF s = <<>> \/ s[Len(s)] = "\n" THEN 0
    ELSE 1 + LastLineLen(SubSeq(s, 1, Len(s) - 1))

\* HTMLParser.getpos() at an event that starts right after `before':
\* lineno counts from 1, offset is the column in the line.
getpos(before) == [lin |-> 1 + Count(before, "\n"), offset |-> LastLineLen(before)]

-----------------------------------------------------------------------------
(* MarkdownSplitParser *)

\* str.find('\n', pos): the first index >= pos of a line break, or -1.
RECURSIVE find(_, _)
find(s, pos) ==
    IF pos >= Len(s) THEN -1
    ELSE IF s[pos + 1] = "\n" THEN pos
    ELSE find(s, pos + 1)

\* The loop of get_offset with pos left on the line break it found.
RECURSIVE get_offset_loop_on(_, _, _)
get_offset_loop_on(s, n, pos) ==
    IF n <= 0 THEN pos
    ELSE get_offset_loop_on(s, n - 1, find(s, pos))

RECURSIVE get_offset_loop(_, _, _)
get_offset_loop(s, n, pos) ==
    IF n <= 0 THEN pos
    ELSE get_offset_loop(s, n - 1, find(s, pos) + 1)

get_offset(s, p) == get_offset_loop(s, p.lin - 1, 0) + p.offset

\* The scanner's state as the handlers see it: the two class-level lists,
\* the instance's two flags, and the exception a handler raised ("" if none).
State(ot, sl, se, da) ==
    [opentags |-> ot, splitlist |-> sl, setag |-> se, datag |-> da, exc |-> ""]

Raise(st) == [st EXCEPT !.exc = "IndexError"]

\* The start-tag rule applied to every tag name, img like any other.
handle_starttag_any(st, tag, pos) ==
    IF Len(st.opentags) = 0
    THEN IF st.datag \/ st.setag
         THEN IF st.splitlist = <<>> THEN Raise(st)
              ELSE [st EXCEPT !.splitlist = Append(AppendToLast(@, PyInt(pos)),
                                                   <<html, PyInt(pos)>>),
                              !.datag = FALSE,
                              !.setag = FALSE,
                              !.opentags = Append(@, tag)]
         ELSE [st EXCEPT !.splitlist = Append(@, <<html, PyInt(pos)>>),
                         !.opentags = Append(@, tag)]
    ELSE [st EXCEPT !.opentags = Append(@, tag)]

handle_starttag(st, tag, pos) ==
    IF tag = img THEN st
    ELSE IF Len(st.opentags) = 0
    THEN IF st.datag \/ st.setag
         THEN IF st.splitlist = <<>> THEN Raise(st)
              ELSE [st EXCEPT !.splitlist = Append(AppendToLast(@, PyInt(pos)),
                                                   <<html, PyInt(pos)>>),
                              !.datag = FALSE,
                              !.setag = FALSE,
                              !.opentags = Append(@, tag)]
         ELSE [st EXCEPT !.splitlist = Append(@, <<html, PyInt(pos)>>),
                         !.opentags = Append(@, tag)]
    ELSE [st EXCEPT !.opentags = Append(@, tag)]

handle_endtag(st, tag, pos) ==
    IF st.opentags = <<>> THEN Raise(st)
    ELSE LET popped == [st EXCEPT !.opentags = SubSeq(@, 1, Len(@) - 1)]
         IN IF Len(popped.opentags) = 0
            THEN IF popped.splitlist = <<>> THEN Raise(popped)
                 ELSE [popped EXCEPT !.splitlist =
                           AppendToLast(@, PyInt(pos + Len(tag) + 3))]
            ELSE popped

\* The self-closing rule with the data-run flag left as it was.
handle_startendtag_keep(st, tag, pos) ==
    IF Len(st.opentags) = 0
    THEN IF st.datag
         THEN IF st.splitlist = <<>> THEN Raise(st)
              ELSE [st EXCEPT !.splitlist = Append(AppendToLast(@, PyInt(pos)),
                                                   <<html, PyInt(pos)>>),
                              !.setag = TRUE]
         ELSE [st EXCEPT !.splitlist = Append(@, <<html, PyInt(pos)>>),
                         !.setag = TRUE]
    ELSE st

handle_startendtag(st, tag, pos) ==
    IF Len(st.opentags) = 0
    THEN IF st.datag
         THEN IF st.splitlist = <<>> THEN Raise(st)
              ELSE [st EXCEPT !.splitlist = Append(AppendToLast(@, PyInt(pos)),
                                                   <<html, PyInt(pos)>>),
                              !.datag = FALSE,
                              !.setag = TRUE]
         ELSE [st EXCEPT !.splitlist = Append(@, <<html, PyInt(pos)>>),
                         !.setag = TRUE]
    ELSE st

handle_data(st, pos) ==
    IF Len(st.opentags) = 0 /\ ~st.datag
    THEN IF st.setag
         THEN IF st.splitlist = <<>> THEN Raise(st)
              ELSE [st EXCEPT !.splitlist = Append(AppendToLast(@, PyInt(pos)),
                                                   <<markdown, PyInt(pos)>>),
                              !.setag = FALSE,
                              !.datag = TRUE]
         ELSE [st EXCEPT !.splitlist = Append(@, <<markdown, PyInt(pos)>>),
                         !.datag = TRUE]
    ELSE st

\* The handler HTMLParser calls for event e, which starts at the end of `before'.
Handle(st, e, before) ==
    LET pos == get_offset(before \o e.text, getpos(before))
    IN CASE e.ev = "starttag" -> handle_starttag(st, e.tag, pos)
         [] e.ev = "endtag" -> handle_endtag(st, e.tag, pos)
         [] e.ev = "startendtag" -> handle_startendtag(st, e.tag, pos)
         [] OTHER -> handle_data(st, pos)

\* feed, lines 180-187: the loop over enumerate(self.splitlist).  i is the
\* list iterator's index, li the element it yields; the loop ends when i
\* reaches the current length of the list.
RECURSIVE feed_loop(_, _, _, _)
feed_loop(sl, s, i, num_pop) ==
    IF i >= Len(sl) THEN [splitlist |-> sl, exc |-> ""]
    ELSE LET j == i - num_pop
         IN IF Len(sl[j + 1]) < 3 THEN [splitlist |-> sl, exc |-> "IndexError"]
            ELSE LET text == PySlice(s, sl[j + 1][2].n, sl[j + 1][3].n)
                     sl1 == [sl EXCEPT ![j + 1] = Append(@, PyStr(text))]
                     li == sl1[i + 1]
                 IN IF Len(li) < 3 THEN [splitlist |-> sl1, exc |-> "IndexError"]
                    ELSE IF li[Len(li) - 2] = li[Len(li) - 1]
                    THEN feed_loop(PyPop(sl1, i), s, i + 1, num_pop + 1)
                    ELSE feed_loop(sl1, s, i + 1, num_pop)

\* feed, lines 178-187: what follows HTMLParser.feed.
feed_tail(sl, s) ==
    IF sl = <<>> THEN [splitlist |-> sl, exc |-> "IndexError"]
    ELSE IF Len(sl[Len(sl)]) = 2
    THEN feed_loop(AppendToLast(sl, PyInt(Len(s))), s, 0, 0)
    ELSE feed_loop(sl, s, 0, 0)

\* pandoc(source, fmt, to) and html2latex(source): external converters, kept
\* as the call itself.
pandoc(source, fmt, to) == [fn |-> "pandoc", arg |-> source, fmt |-> fmt, to |-> to]
html2latex(source) == [fn |-> "html2latex", arg |-> source, fmt |-> "html", to |-> "latex"]
markdown2latex(source) == pandoc(source, "markdown", "latex")

\* extended_markdown2latex, lines 96-105: outtext is the sequence of the
\* converters' results, in the order they were added.
RECURSIVE dispatch_loop(_, _, _)
dispatch_loop(sl, i, out) ==
    IF i > Len(sl) THEN [outtext |-> out, exc |-> ""]
    ELSE LET substring == sl[i]
         IN IF substring[1] = markdown
            THEN IF Len(substring) < 4 THEN [outtext |-> out, exc |-> "IndexError"]
                 ELSE dispatch_loop(sl, i + 1, Append(out, markdown2latex(substring[4])))
            ELSE IF substring[1] = html
            THEN IF Len(substring) < 4 THEN [outtext |-> out, exc |-> "IndexError"]
                 ELSE dispatch_loop(sl, i + 1, Append(out, html2latex(substring[4])))
            ELSE dispatch_loop(sl, i + 1, out)

-----------------------------------------------------------------------------
(* The program *)

Init ==
    /\ opentags = <<>>
    /\ splitlist = <<>>
    /\ setag = FALSE
    /\ datag = FALSE
    /\ data = <<>>
    /\ fed = <<>>
    /\ outtext = <<>>
    /\ pc = "idle"
    /\ calls = 0
    /\ raised = 0
    /\ events = 0

\* The call is over: it returned, or an exception left it.
Over == pc \in {"idle", "returned", "raised_scan", "raised_feed", "raised_dispatch"}

\* extended_markdown2latex(source), lines 94-95 up to the first event: a new
\* MarkdownSplitParser, whose setag and datag read the class's False, and
\* whose opentags and splitlist are the class's two lists.  A caller that
\* caught the exception of an earlier call may call again.
Call ==
    /\ Over
    /\ calls < MaxCalls
    /\ calls' = calls + 1
    /\ pc' = "scan"
    /\ setag' = FALSE
    /\ datag' = FALSE
    /\ data' = <<>>
    /\ fed' = <<>>
    /\ outtext' = <<>>
    /\ UNCHANGED <<opentags, splitlist, raised, events>>

Event(e) ==
    /\ pc = "scan"
    /\ events < MaxEvents
    /\ LET st == Handle(State(opentags, splitlist, setag, datag), e, data)
       IN /\ opentags' = st.opentags
          /\ splitlist' = st.splitlist
          /\ setag' = st.setag
          /\ datag' = st.datag
          /\ pc' = IF st.exc = "" THEN "scan" ELSE "raised_scan"
          /\ raised' = IF st.exc = "" THEN raised ELSE raised + 1
    /\ data' = data \o e.text
    /\ fed' = Append(fed, e)
    /\ events' = events + 1
    /\ UNCHANGED <<outtext, calls>>

StartTag == \E e \in StartEvents : Event(e)
EndTag == \E e \in EndEvents : Event(e)
StartEndTag == \E e \in StartEndEvents : Event(e)
Data == \E e \in DataEvents : Event(e)

\* HTMLParser.feed has delivered the last event: feed, lines 178-187.
FeedEnd ==
    /\ pc = "scan"
    /\ LET r == feed_tail(splitlist, data)
       IN /\ splitlist' = r.splitlist
          /\ pc' = IF r.exc = "" THEN "fed" ELSE "raised_feed"
          /\ raised' = IF r.exc = "" THEN raised ELSE raised + 1
    /\ UNCHANGED <<opentags, setag, datag, data, fed, outtext, calls, events>>

\* extended_markdown2latex, lines 96-105.
Dispatch ==
    /\ pc = "fed"
    /\ LET r == dispatch_loop(splitlist, 1, <<>>)
       IN /\ outtext' = r.outtext
          /\ pc' = IF r.exc = "" THEN "returned" ELSE "raised_dispatch"
          /\ raised' = IF r.exc = "" THEN raised ELSE raised + 1
    /\ UNCHANGED <<opentags, splitlist, setag, datag, data, fed, calls, events>>

Next == Call \/ StartTag \/ EndTag \/ StartEndTag \/ Data \/ FeedEnd \/ Dispatch

Spec == Init /\ [][Next]_vars

\* The same program with fewer calls and events: the runs that look at the
\* scanner's state between two events.
ScanCall == calls < MaxScanCalls /\ Call
ScanStartTag == events < MaxScanEvents /\ StartTag
ScanEndTag == events < MaxScanEvents /\ EndTag
ScanStartEndTag == events < MaxScanEvents /\ StartEndTag
ScanData == events < MaxScanEvents /\ Data

ScanNext ==
    \/ ScanCall
    \/ ScanStartTag
    \/ ScanEndTag
    \/ ScanStartEndTag
    \/ ScanData
    \/ FeedEnd
    \/ Dispatch

ScanSpec == Init /\ [][ScanNext]_vars

-----------------------------------------------------------------------------
(* Reading the span list *)

Kind(sp) == sp[1]
Start(sp) == sp[2].n
End(sp) == sp[3].n

\* feed has returned to extended_markdown2latex in the current call.
FeedReturned == pc \in {"fed", "returned", "raised_dispatch"}
\* The current call has left HTMLParser.feed, by return or by exception.
ScanOver == pc \in {"fed", "returned", "raised_scan", "raised_feed", "raised_dispatch"}

\* sp is a span of the given kind over [s, e).
SpanIs(sp, kind, s, e) ==
    /\ Len(sp) >= 3
    /\ Kind(sp) = kind
    /\ sp[2] = PyInt(s)
    /\ sp[3] = PyInt(e)

RECURSIVE TextOf(_)
TextOf(evs) == IF evs = <<>> THEN <<>> ELSE evs[1].text \o TextOf(Tail(evs))

\* The offset in the source at which event i of evs starts.
OffsetOf(evs, i) == Len(TextOf(SubSeq(evs, 1, i - 1)))

RECURSIVE Slices(_, _)
Slices(sl, s) ==
    IF sl = <<>> THEN <<>>
    ELSE PySlice(s, Start(sl[1]), End(sl[1])) \o Slices(Tail(sl), s)

\* The spans of sl tile [0, n) of s: each has its two boundaries, the first
\* starts at 0, each ends where the next starts, the last ends at n, and
\* their slices of s, put end to end, are s.
Covers(sl, s) ==
    /\ \A i \in 1..Len(sl) : Len(sl[i]) >= 3
    /\ IF sl = <<>> THEN s = <<>>
       ELSE /\ Start(sl[1]) = 0
            /\ \A i \in 1..(Len(sl) - 1) : End(sl[i]) = Start(sl[i + 1])
            /\ End(sl[Len(sl)]) = Len(s)
    /\ Slices(sl, s) = s

\* One split of the events evs by a scanner that starts from nothing:
\* the handlers in order, then feed's tail.
RECURSIVE ScanFrom(_, _, _)
ScanFrom(st, evs, before) ==
    IF evs = <<>> \/ st.exc # "" THEN st
    ELSE ScanFrom(Handle(st, evs[1], before), Tail(evs), before \o evs[1].text)

FreshSplit(evs) ==
    LET st == ScanFrom(State(<<>>, <<>>, FALSE, FALSE), evs, <<>>)
    IN IF st.exc # "" THEN [splitlist |-> st.splitlist, exc |-> st.exc]
       ELSE feed_tail(st.splitlist, TextOf(evs))

-----------------------------------------------------------------------------
(* Shapes of sources *)

IsData(e) == e.ev = "data"
IsPlainEnd(e) == e.ev = "endtag" /\ e.text = EndText(e.tag, <<>>)

\* text, a start tag, text, the end tag of that name, text.
IsMixed(evs) ==
    /\ Len(evs) = 5
    /\ IsData(evs[1]) /\ IsData(evs[3]) /\ IsData(evs[5])
    /\ evs[2].ev = "starttag" /\ evs[2].tag # img
    /\ evs[4].ev = "endtag" /\ evs[4].tag = evs[2].tag

\* The stack of open element names after evs, or <<"unbalanced">> if an end
\* tag does not match the innermost open element.  Every start tag opens an
\* element, whatever its name.
RECURSIVE Open(_, _)
Open(evs, stack) ==
    IF evs = <<>> THEN stack
    ELSE IF evs[1].ev = "starttag" THEN Open(Tail(evs), Append(stack, evs[1].tag))
    ELSE IF evs[1].ev = "endtag"
    THEN IF stack # <<>> /\ stack[Len(stack)] = evs[1].tag /\ IsPlainEnd(evs[1])
         THEN Open(Tail(evs), SubSeq(stack, 1, Len(stack) - 1))
         ELSE <<<<"unbalanced">>>>
    ELSE Open(Tail(evs), stack)

\* One balanced block with at least one element nested in it: it opens with a
\* start tag other than img, closes with that element's end tag, and no
\* proper prefix is balanced.
IsNestedBlock(evs) ==
    /\ Len(evs) >= 4
    /\ evs[1].ev = "starttag" /\ evs[1].tag # img
    /\ Open(evs, <<>>) = <<>>
    /\ \A k \in 1..(Len(evs) - 1) : Open(SubSeq(evs, 1, k), <<>>) # <<>>
    /\ \E k \in 2..(Len(evs) - 1) : evs[k].ev = "starttag"

\* text, one self-closing tag, text.
IsSelfClosingMixed(evs) ==
    /\ Len(evs) = 3
    /\ IsData(evs[1]) /\ evs[2].ev = "startendtag" /\ IsData(evs[3])

\* Only literal data, at least one event of it.
IsPureMarkdown(evs) == evs # <<>> /\ \A i \in 1..Len(evs) : IsData(evs[i])

-----------------------------------------------------------------------------
(* The claims *)

\* No call of the process has raised: every call before the current one
\* returned, and the current one has not failed.
NoneRaised == raised = 0
\* The current call has failed, and it is the first that did.
FirstRaise == raised = 1 /\ pc \in {"raised_scan", "raised_feed", "raised_dispatch"}

\* C1 (coverage): for every source, the empty one included, feed returns a
\* span list, and the spans, in order, reconstruct the source: the first
\* starts at 0, each ends where the next starts, the last ends at
\* len(source).  (An exception raised by a handler during the scan is not
\* counted against the claim here; one raised by feed after the scan is.)
C1_Coverage ==
    /\ pc # "raised_feed"
    /\ pc = "fed" => Covers(splitlist, data)

\* C2 (independence of calls): after calls that all returned, a call starts
\* its scan with no open tags and no spans, and the span list feed returns
\* for a source is the one a split of that source gives when nothing was
\* split before it.
C2_Independent ==
    /\ (pc = "scan" /\ fed = <<>> /\ NoneRaised) =>
           (opentags = <<>> /\ splitlist = <<>>)
    /\ (pc = "fed" /\ NoneRaised) =>
           (FreshSplit(fed).exc = "" /\ splitlist = FreshSplit(fed).splitlist)

\* C3 (non-empty): after feed returns, no span of the span list has
\* start == end.
C3_NonEmpty ==
    FeedReturned =>
        \A i \in 1..Len(splitlist) :
            Len(splitlist[i]) >= 3 => Start(splitlist[i]) # End(splitlist[i])

\* C4 (mixed text and HTML block): for a source of text, one balanced
\* top-level block (start tag, content, matching end tag) and text, feed
\* returns exactly three spans, markdown, html, markdown; the html span runs
\* from the block's '<' to just after the closing tag's '>', the markdown
\* spans are the text before and after.
C4_Mixed ==
    (ScanOver /\ IsMixed(fed) /\ (NoneRaised \/ FirstRaise)) =>
        /\ FeedReturned
        /\ Len(splitlist) = 3
        /\ SpanIs(splitlist[1], markdown, 0, OffsetOf(fed, 2))
        /\ SpanIs(splitlist[2], html, OffsetOf(fed, 2), OffsetOf(fed, 5))
        /\ SpanIs(splitlist[3], markdown, OffsetOf(fed, 5), Len(data))

\* C5 (nesting does not fragment a region): while the nesting depth is above
\* 0, a start-tag, self-closing-tag or data event adds no span and sets no
\* span boundary (a start tag changes nothing but the depth, by one at most);
\* and a source that is one balanced, nested HTML block yields exactly one
\* html span, over the whole source.
C5_NoFragment ==
    /\ (pc = "scan" /\ Len(opentags) > 0) =>
           \A e \in StartEvents \cup StartEndEvents \cup DataEvents :
               LET st == Handle(State(opentags, splitlist, setag, datag), e, data)
               IN /\ st.exc = ""
                  /\ st.splitlist = splitlist
                  /\ st.setag = setag /\ st.datag = datag
                  /\ IF e.ev = "starttag"
                     THEN st.opentags \in {opentags, Append(opentags, e.tag)}
                     ELSE st.opentags = opentags
    /\ (ScanOver /\ IsNestedBlock(fed) /\ (NoneRaised \/ FirstRaise)) =>
           /\ FeedReturned
           /\ Len(splitlist) = 1
           /\ SpanIs(splitlist[1], html, 0, Len(data))

\* C6 (self-closing boundary precision): for a source of text, one
\* self-closing tag at depth 0 and text, feed returns exactly three spans,
\* markdown, html, markdown, the html span being exactly the tag.
C6_SelfClosing ==
    (ScanOver /\ IsSelfClosingMixed(fed) /\ (NoneRaised \/ FirstRaise)) =>
        /\ FeedReturned
        /\ Len(splitlist) = 3
        /\ SpanIs(splitlist[1], markdown, 0, OffsetOf(fed, 2))
        /\ SpanIs(splitlist[2], html, OffsetOf(fed, 2), OffsetOf(fed, 3))
        /\ SpanIs(splitlist[3], markdown, OffsetOf(fed, 3), Len(data))

\* C7 (pure markdown): for a source of literal data only, feed returns
\* exactly one span, markdown, from 0 to len(source).
C7_PureMarkdown ==
    (ScanOver /\ IsPureMarkdown(fed) /\ (NoneRaised \/ FirstRaise)) =>
        /\ FeedReturned
        /\ Len(splitlist) = 1
        /\ SpanIs(splitlist[1], markdown, 0, Len(data))

\* C8 (end of input closes the last span): when all events are in and the
\* last span has no end boundary, feed gives it the end len(source) (the span
\* stays last in the list unless it is empty); and a source that is a single
\* self-closing tag yields exactly one html span, over the whole source.
C8_EndOfInput ==
    /\ (pc = "scan" /\ splitlist # <<>> /\ Len(splitlist[Len(splitlist)]) = 2
            /\ Start(splitlist[Len(splitlist)]) # Len(data)) =>
           LET r == feed_tail(splitlist, data)
           IN r.exc = "" =>
                  /\ r.splitlist # <<>>
                  /\ Len(r.splitlist[Len(r.splitlist)]) >= 3
                  /\ End(r.splitlist[Len(r.splitlist)]) = Len(data)
    /\ (ScanOver /\ Len(fed) = 1 /\ fed[1].ev = "startendtag"
            /\ (NoneRaised \/ FirstRaise)) =>
           /\ FeedReturned
           /\ Len(splitlist) = 1
           /\ SpanIs(splitlist[1], html, 0, Len(data))

\* C9 (end-to-end dispatch): extended_markdown2latex returns, and what it
\* returns is, span by span of the list feed produced and in that order,
\* markdown2latex(text) for a markdown span and html2latex(text) for an html
\* span, text being the span's fourth field; every span contributes once.
C9_Dispatch ==
    (pc \in {"returned", "raised_dispatch"} /\ (NoneRaised \/ FirstRaise)) =>
        /\ pc = "returned"
        /\ Len(outtext) = Len(splitlist)
        /\ \A i \in 1..Len(splitlist) :
               /\ Len(splitlist[i]) >= 4
               /\ outtext[i] = IF Kind(splitlist[i]) = markdown
                               THEN markdown2latex(splitlist[i][4])
                               ELSE html2latex(splitlist[i][4])

\* C10 (unmatched closing tag): an end-tag event at nesting depth 0 either
\* fails the call with an exception, after which no partial span list is
\* returned or retained (seen on a process's first call: no span is left in
\* the span list and nothing was converted), or leaves the depth at 0; the
\* depth is never negative.
C10_Unmatched ==
    /\ Len(opentags) >= 0
    /\ (pc = "scan" /\ opentags = <<>>) =>
           \A e \in EndEvents :
               LET st == Handle(State(opentags, splitlist, setag, datag), e, data)
               IN st.exc # "" \/ st.opentags = <<>>
    /\ (pc = "raised_scan" /\ calls = 1) => (splitlist = <<>> /\ outtext = <<>>)

-----------------------------------------------------------------------------
(* The first call of a process, for comparison: the scanner starts from the
   two empty class-level lists, as a scanner with lists of its own would. *)

\* C6, C7 and the single-tag case of C8 on the first call.
FirstCallShapes ==
    (calls = 1 /\ ScanOver) =>
        /\ IsSelfClosingMixed(fed) =>
               /\ FeedReturned
               /\ Len(splitlist) = 3
               /\ SpanIs(splitlist[1], markdown, 0, OffsetOf(fed, 2))
               /\ SpanIs(splitlist[2], html, OffsetOf(fed, 2), OffsetOf(fed, 3))
               /\ SpanIs(splitlist[3], markdown, OffsetOf(fed, 3), Len(data))
        /\ IsPureMarkdown(fed) =>
               /\ FeedReturned
               /\ Len(splitlist) = 1
               /\ SpanIs(splitlist[1], markdown, 0, Len(data))
        /\ (Len(fed) = 1 /\ fed[1].ev = "startendtag") =>
               /\ FeedReturned
               /\ Len(splitlist) = 1
               /\ SpanIs(splitlist[1], html, 0, Len(data))

\* C3 and C9 as long as at most two calls were made and none raised before.
FirstCallsDispatch ==
    (calls <= 2 /\ NoneRaised) =>
        /\ C3_NonEmpty
        /\ C9_Dispatch

-----------------------------------------------------------------------------
(* The claims, continued *)

\* The events that bear on a span boundary at depth 0: a start tag other
\* than img, a self-closing tag, literal data.
BoundaryEvents ==
    {e \in StartEvents : e.tag # img} \cup StartEndEvents \cup DataEvents

\* Every event of evs is a self-closing tag.
AllSelfClosing(evs) == \A i \in 1..Len(evs) : evs[i].ev = "startendtag"

\* C11 (a pending self-closing region is finalized by the next event): with
\* a self-closing region pending at depth 0, the next start tag, data or
\* self-closing tag gives that region the event's offset as its end before
\* it opens a new span; so a source of two or more consecutive self-closing
\* tags comes out of feed with an end boundary on every span.
C11_PendingFinalized ==
    /\ (pc = "scan" /\ setag /\ opentags = <<>> /\ splitlist # <<>>) =>
           \A e \in BoundaryEvents :
               LET st == Handle(State(opentags, splitlist, setag, datag), e, data)
                   k == Len(splitlist)
               IN /\ st.exc = ""
                  /\ Len(st.splitlist) = k + 1
                  /\ st.splitlist[k] = Append(splitlist[k], PyInt(Len(data)))
    /\ (ScanOver /\ Len(fed) >= 2 /\ AllSelfClosing(fed)
            /\ (NoneRaised \/ FirstRaise)) =>
           /\ FeedReturned
           /\ \A i \in 1..Len(splitlist) : Len(splitlist[i]) >= 3

\* The list the loop of feed starts on: the last span closed at len(source)
\* if it had no end.
LoopEntry(sl, s) ==
    IF sl # <<>> /\ Len(sl[Len(sl)]) = 2 THEN AppendToLast(sl, PyInt(Len(s))) ELSE sl

\* The spans of sl with start # end, in order, each with its slice of s
\* added as its text.
RECURSIVE NonEmptyWithText(_, _)
NonEmptyWithText(sl, s) ==
    IF sl = <<>> THEN <<>>
    ELSE IF Start(sl[1]) = End(sl[1]) THEN NonEmptyWithText(Tail(sl), s)
    ELSE <<Append(sl[1], PyStr(PySlice(s, Start(sl[1]), End(sl[1]))))>>
             \o NonEmptyWithText(Tail(sl), s)

\* C12 (post-processing in feed): whatever list of spans with a start and an
\* end reaches the loop, the loop leaves exactly the spans with start # end,
\* in their order, each with source[start:end] added as its text.
C12_PostProcess ==
    (pc = "scan" /\ NoneRaised /\ splitlist # <<>>
         /\ \A i \in 1..Len(LoopEntry(splitlist, data)) :
                Len(LoopEntry(splitlist, data)[i]) >= 3) =>
        LET r == feed_tail(splitlist, data)
        IN /\ r.exc = ""
           /\ r.splitlist = NonEmptyWithText(LoopEntry(splitlist, data), data)

\* evs opens a top-level region with a start tag other than img and, tag for
\* tag, every end tag so far matches the innermost open element; the region
\* was still open before the last event.
InRegion(evs) ==
    /\ evs # <<>>
    /\ evs[1].ev = "starttag" /\ evs[1].tag # img
    /\ \A k \in 1..Len(evs) : Open(SubSeq(evs, 1, k), <<>>) # <<<<"unbalanced">>>>
    /\ \A k \in 1..(Len(evs) - 1) : Open(SubSeq(evs, 1, k), <<>>) # <<>>

\* C13 (a top-level region ends exactly at its balanced closing tag): a
\* region opened by a start tag at depth 0 stays open, whatever nested
\* elements, img tags and their end tags follow, until the end tag that
\* matches its opening tag, and that end tag closes it at the offset just
\* after itself, its scan offset plus len(name) + 3.
C13_RegionEnd ==
    (pc = "scan" /\ InRegion(fed) /\ splitlist # <<>>) =>
        LET last == splitlist[Len(splitlist)]
            e == fed[Len(fed)]
        IN IF Open(fed, <<>>) # <<>>
           THEN last = <<html, PyInt(0)>>
           ELSE last = <<html, PyInt(0),
                         PyInt(OffsetOf(fed, Len(fed)) + Len(e.tag) + 3)>>

\* C14 (img exclusion): during a scan, whatever the nesting depth, the
\* flags and the spans so far, the start-tag event of an img element leaves
\* the scanner's state as it is: no span opened or closed, the same open
\* tags, the same two flags, and no exception.
C14_ImgExclusion ==
    pc = "scan" =>
        Handle(State(opentags, splitlist, setag, datag), StartEvent(img), data)
            = State(opentags, splitlist, setag, datag)

\* An img start tag has been scanned inside an open element, after a span
\* was closed.
C14_ImgScanned ==
    /\ pc = "scan"
    /\ fed # <<>> /\ fed[Len(fed)] = StartEvent(img)
    /\ Len(opentags) > 0
    /\ Len(splitlist) >= 2

\* The lines of s in order, each with its line break; the last one may have none.
RECURSIVE Lines(_)
Lines(s) ==
    IF s = <<>> THEN <<>>
    ELSE IF \E k \in 1..Len(s) : s[k] = "\n"
    THEN LET k == CHOOSE k \in 1..Len(s) :
                      s[k] = "\n" /\ \A m \in 1..(k - 1) : s[m] # "\n"
         IN <<SubSeq(s, 1, k)>> \o Lines(SubSeq(s, k + 1, Len(s)))
    ELSE <<s>>

RECURSIVE SumLen(_)
SumLen(ls) == IF ls = <<>> THEN 0 ELSE Len(ls[1]) + SumLen(Tail(ls))

\* The (line, column) positions in s: a line that exists or the empty line
\* after a final line break, and a column within that line.
Positions(s) ==
    LET ls == Lines(s)
    IN UNION {[lin : {n}, offset : 0..(IF n <= Len(ls) THEN Len(ls[n]) ELSE 0)] :
                  n \in 1..(1 + Count(s, "\n"))}

\* C15 (offset computation): for the source scanned so far and every
\* (line, column) position in it, line counted from 1 and column from 0,
\* get_offset is the sum of the lengths of the lines before that line, each
\* with its line break, plus the column; and for the position the tokenizer
\* reported at the last event that is the index of the event's first character.
C15_Offset ==
    (pc = "scan" /\ fed # <<>>) =>
        LET ls == Lines(data)
            before == TextOf(SubSeq(fed, 1, Len(fed) - 1))
        IN /\ \A p \in Positions(data) :
                  get_offset(data, p) = SumLen(SubSeq(ls, 1, p.lin - 1)) + p.offset
           /\ getpos(before) \in Positions(data)
           /\ get_offset(data, getpos(before)) = Len(before)

\* A start tag was scanned on the third line or later, after a self-closing
\* tag on the same line, and opened the span that starts at its offset.
C15_OffsetUsed ==
    /\ pc = "scan"
    /\ Len(fed) >= 2
    /\ fed[Len(fed)] = StartEvent(<<"d">>)
    /\ fed[Len(fed) - 1].ev = "startendtag"
    /\ Count(data, "\n") >= 2
    /\ splitlist # <<>>
    /\ splitlist[Len(splitlist)] = <<html, PyInt(Len(data) - 3)>>

\* C16 (scanner flag invariant): in every state of a scan, and in the state
\* an exception in a handler leaves, datag and setag are not both true;
\* datag true means no element is open and the last span is a markdown span
\* of kind and start only; setag true means no element is open and the last
\* span is an html span of kind and start only.
C16_Flags ==
    pc \in {"scan", "raised_scan"} =>
        /\ ~(datag /\ setag)
        /\ datag => /\ opentags = <<>>
                    /\ splitlist # <<>>
                    /\ Len(splitlist[Len(splitlist)]) = 2
                    /\ Kind(splitlist[Len(splitlist)]) = markdown
        /\ setag => /\ opentags = <<>>
                    /\ splitlist # <<>>
                    /\ Len(splitlist[Len(splitlist)]) = 2
                    /\ Kind(splitlist[Len(splitlist)]) = html

\* A self-closing tag has just ended a data run: setag is set, datag was.
C16_FlagsSet ==
    /\ pc = "scan"
    /\ setag
    /\ Len(fed) >= 2
    /\ fed[Len(fed)].ev = "startendtag"
    /\ fed[Len(fed) - 1].ev = "data"
    /\ Len(splitlist) >= 2
    /\ Kind(splitlist[Len(splitlist) - 1]) = markdown

\* Every event the tokenizer can deliver.
AllEvents == StartEvents \cup EndEvents \cup StartEndEvents \cup DataEvents

\* Handling e in the current state appends a number to the span that is
\* last before the event.
AppendsEnd(e) ==
    LET st == Handle(State(opentags, splitlist, setag, datag), e, data)
        k == Len(splitlist)
    IN /\ k > 0
       /\ Len(st.splitlist) >= k
       /\ Len(st.splitlist[k]) = Len(splitlist[k]) + 1

\* C17 (single end boundary): whenever a handler appends an end boundary to
\* the last span, that span has the two fields kind and start and no more;
\* and when an end tag brings the depth to 0, the last span is an html span
\* that is still open.
C17_SingleEnd ==
    (pc = "scan" /\ (NoneRaised \/ FirstRaise)) =>
        \A e \in AllEvents :
            /\ AppendsEnd(e) => Len(splitlist[Len(splitlist)]) = 2
            /\ (e.ev = "endtag" /\ Len(opentags) = 1) =>
                   /\ splitlist # <<>>
                   /\ Len(splitlist[Len(splitlist)]) = 2
                   /\ Kind(splitlist[Len(splitlist)]) = html

\* Each end tag of evs closes the innermost open element.
Balanced(evs) ==
    \A k \in 1..Len(evs) : Open(SubSeq(evs, 1, k), <<>>) # <<<<"unbalanced">>>>

\* C18 (totality on balanced input): when each end tag scanned so far has a
\* matching open start tag (the empty source, img start tags only and runs
\* of self-closing tags included), no handler has raised, feed's tail runs
\* to completion on the source ending here, and every span it leaves has
\* the four fields kind, start, end, text.
C18_Total ==
    (pc \in {"scan", "raised_scan"} /\ Balanced(fed) /\ (NoneRaised \/ FirstRaise)) =>
        /\ pc = "scan"
        /\ LET r == feed_tail(splitlist, data)
           IN /\ r.exc = ""
              /\ \A i \in 1..Len(r.splitlist) : Len(r.splitlist[i]) = 4

\* C19 (no adjacent markdown spans): in the span list a scan is building,
\* no two consecutive spans are both markdown spans.
C19_NoAdjacentMarkdown ==
    (pc = "scan" /\ NoneRaised) =>
        \A i \in 1..(Len(splitlist) - 1) :
            ~(Kind(splitlist[i]) = markdown /\ Kind(splitlist[i + 1]) = markdown)

=============================================================================
